---- MODULE Spec2Model ----
(***************************************************************************)
(* Decorator layer of graphene (src/unnamed/part_001): Field, InputField,  *)
(* ObjectType, InterfaceType, InputObjectType and EnumType, over the       *)
(* reflection registry they read and write.                                *)
(*                                                                         *)
(* A pending field map (the object getFields / getInputFields returns) is  *)
(* a sequence of thunks without repeated key, in insertion order, which is *)
(* the order in which a JavaScript object enumerates its string keys.  A   *)
(* thunk is the closure Field / InputField stores: the record of what it   *)
(* captured (target, key, type, config).                                   *)
(*                                                                         *)
(* The module ../reflection is not part of the sources modelled.           *)
(* mountFields hands back a function that invokes the thunks of the map    *)
(* when the external type reads its fields: the example (part_000 28-57)   *)
(* registers an interface with a field of its own type, which              *)
(* InterfaceType, evaluating mountFields(fields) before setGraphQLType     *)
(* (part_001 275-283), can only do when no thunk is invoked by the call.   *)
(* setGraphQLType writes the entry of a class.  What getGraphQLType does   *)
(* for a class that has no entry is left open: it gives no type, or it     *)
(* throws, one of the two in every behaviour (variable noType).            *)
(***************************************************************************)
EXTENDS Integers, Sequences, FiniteSets, TLC

VARIABLES
  fields,       \* class -> pending field map          (getFields(class))
  inputFields,  \* class -> pending input-field map    (getInputFields(class))
  graphqlType,  \* class -> registered external type   (getGraphQLType(class))
  mounted,      \* class -> field configs the external type got from its fields function
  meta,         \* class -> key -> what @description / @deprecated recorded
  noType,       \* what getGraphQLType does for a class without registered type
  last,         \* the last operation: its arguments, the error it threw, the
                \* thunks that were invoked
  nOps,         \* number of operations applied
  decl          \* which module is loaded: the decorators there are to apply

vars == <<fields, inputFields, graphqlType, mounted, meta, noType, last, nOps, decl>>

----------------------------------------------------------------------------
(* Bounds and input sets *)

MaxOps == 6

Classes == {"Character", "Human", "Droid", "Episode"}
Keys == {"name", "friends"}
\* members of a class that are methods (typeof target[key] === 'function'):
\* friends of Character; Human.friends and Droid.friends are only declared
Methods(target) == IF target = "Character" THEN {"friends"} ELSE {}
StaticKeys == {"NEWHOPE", "EMPIRE", "JEDI"}
ClassKey == "<class>"           \* metadata of the class itself: getDescription(target)
MetaKeys == Keys \cup StaticKeys \cup {ClassKey}
Scalars == {"String", "ID"}

Undefined == "undefined"        \* the JavaScript value undefined
Absent == "absent"              \* a property the object does not have
Throws == "throws"

ErrNone == "none"
ErrDuplicate == "Field is already defined"
ErrNotOutput == "Type is not output"
ErrNotInput == "Type is not input"
ErrArgument == "Field argument expected to be Input type"
ErrInterface == "Provided interface is not valid"
ErrNoFields == "Type must have fields defined on it"
ErrNoType == "(the error of getGraphQLType)"

\* A type as the decorators receive it: a scalar constructor, a class, or [T].
Ref(of, list) == [of |-> of, list |-> list]

NoArgs == <<>>
BareArg(name, ref) ==
  [name |-> name, record |-> FALSE, type |-> ref,
   description |-> Absent, defaultValue |-> Absent]

Argument(name, ref, description, defaultValue) ==
  [name |-> name, record |-> TRUE, type |-> ref,
   description |-> description, defaultValue |-> defaultValue]

Config(args, description, deprecationReason, defaultValue) ==
  [args |-> args, description |-> description,
   deprecationReason |-> deprecationReason, defaultValue |-> defaultValue]

NoConfig == Config(NoArgs, Undefined, Undefined, Undefined)

----------------------------------------------------------------------------
(* Maps in insertion order *)

KeysOf(map) == {map[i].key : i \in 1..Len(map)}
Has(map, k) == k \in KeysOf(map)
Get(map, k) == map[CHOOSE i \in 1..Len(map) : map[i].key = k]

\* obj[key] = value: an existing key keeps its place, a new key goes last.
Put(map, e) ==
  IF Has(map, e.key)
  THEN [i \in 1..Len(map) |-> IF map[i].key = e.key THEN e ELSE map[i]]
  ELSE Append(map, e)

\* { ...a, ...b }
RECURSIVE Spread(_, _)
Spread(a, b) == IF b = <<>> THEN a ELSE Spread(Put(a, Head(b)), Tail(b))

----------------------------------------------------------------------------
(* The reflection registry (module ../reflection) *)

Thunk(input, type, config, target, key) ==
  [input |-> input, target |-> target, key |-> key, type |-> type, config |-> config]

NoMeta == [description |-> Undefined, deprecationReason |-> Undefined]

NoEntry ==
  [kind |-> "None", name |-> "", description |-> Undefined,
   interfaces |-> <<>>, fields |-> <<>>, values |-> <<>>]

NoType == [kind |-> "None", name |-> "", list |-> FALSE]
NoTypeError == [kind |-> "Error", name |-> "", list |-> FALSE]

\* getGraphQLType giving an interface type of its own making for a class that
\* has no registered type
getGraphQLTypeOfAnyClass(ref) ==
  IF ref.of \in Scalars
  THEN [kind |-> "Scalar", name |-> ref.of, list |-> ref.list]
  ELSE IF graphqlType[ref.of].kind = "None"
  THEN [kind |-> "Interface", name |-> ref.of, list |-> ref.list]
  ELSE [kind |-> graphqlType[ref.of].kind, name |-> ref.of, list |-> ref.list]

\* The external type a decorator argument stands for: a scalar for its
\* constructor, the registered type of a class, a list of it for [T].  For a
\* class that has no registered type: no type, or a throw (NoTypeError).
getGraphQLType(ref) ==
  IF ref.of \in Scalars
  THEN [kind |-> "Scalar", name |-> ref.of, list |-> ref.list]
  ELSE IF graphqlType[ref.of].kind = "None"
  THEN IF noType = Throws THEN NoTypeError ELSE NoType
  ELSE [kind |-> graphqlType[ref.of].kind, name |-> ref.of, list |-> ref.list]

isOutputType(type) == type.kind \in {"Scalar", "Enum", "Object", "Interface"}
isInputType(type) == type.kind \in {"Scalar", "Enum", "InputObject"}

getFields(target) == fields[target]
getInputFields(target) == inputFields[target]
getDescription(target, key) == meta[target][key].description
getDeprecationReason(target, key) == meta[target][key].deprecationReason

\* a || b
Or(a, b) == IF a \in {Undefined, ""} THEN b ELSE a

\* target[key] on the prototype of the class decorated: the function of a
\* method, undefined for a property that is only declared or is not there
Member(target, key) ==
  IF key \in Methods(target) THEN "<function " \o key \o ">" ELSE Undefined

----------------------------------------------------------------------------
(* The thunks Field and InputField store *)

Thrown(error) == [error |-> error, config |-> Absent]
Returned(config) == [error |-> ErrNone, config |-> config]

\* part_001 lines 115-140: one entry of fieldArgs
ArgumentConfig(arg) ==
  IF arg.record
  THEN [name |-> arg.name, type |-> getGraphQLType(arg.type),
        description |-> arg.description, defaultValue |-> Absent]
  ELSE [name |-> arg.name, type |-> getGraphQLType(arg.type),
        description |-> Absent, defaultValue |-> Absent]

\* part_001 lines 106-161; the loop over args stops at the first argument
\* whose type getGraphQLType throws for or that is no input type
FieldThunk(thunk) ==
  LET _type == getGraphQLType(thunk.type)
      args == thunk.config.args
      fieldArgs == [i \in 1..Len(args) |-> ArgumentConfig(args[i])]
      failing == {i \in 1..Len(args) : ~isInputType(fieldArgs[i].type)}
      argKey == CHOOSE i \in failing : \A j \in failing : i <= j
  IN IF _type = NoTypeError
     THEN Thrown(ErrNoType)
     ELSE IF ~isOutputType(_type)
     THEN Thrown(ErrNotOutput)
     ELSE IF failing # {}
     THEN IF fieldArgs[argKey].type = NoTypeError
          THEN Thrown(ErrNoType)
          ELSE Thrown(ErrArgument)
     ELSE Returned([args |-> fieldArgs,
                    type |-> _type,
                    description |-> getDescription(thunk.target, thunk.key),
                    deprecationReason |-> getDeprecationReason(thunk.target, thunk.key),
                    resolve |-> IF Member(thunk.target, thunk.key) # Undefined
                                THEN "method" ELSE "default",
                    defaultValue |-> Absent])

\* part_001 lines 179-192; the object returned has no args and no resolve
InputFieldThunk(thunk) ==
  LET _type == getGraphQLType(thunk.type)
      defaultValue == Member(thunk.target, thunk.key)
  IN IF _type = NoTypeError
     THEN Thrown(ErrNoType)
     ELSE IF ~isInputType(_type)
     THEN Thrown(ErrNotInput)
     ELSE Returned([args |-> <<>>,
                    type |-> _type,
                    description |->
                      Or(thunk.config.description, getDescription(thunk.target, thunk.key)),
                    deprecationReason |->
                      Or(thunk.config.deprecationReason,
                         getDeprecationReason(thunk.target, thunk.key)),
                    resolve |-> Absent,
                    defaultValue |-> Or(thunk.config.defaultValue, defaultValue)])

Invoke(thunk) == IF thunk.input THEN InputFieldThunk(thunk) ELSE FieldThunk(thunk)

\* The function mountFields returns, invoking the thunks from the last key of
\* the map to the first
FieldsThunkLastFirst(map) ==
  LET n == Len(map)
      reversed == [i \in 1..n |-> map[n + 1 - i]]
      results == [i \in 1..n |-> Invoke(reversed[i])]
      failed == {i \in 1..n : results[i].error # ErrNone}
      first == CHOOSE i \in failed : \A j \in failed : i <= j
  IN IF failed = {}
     THEN [error |-> ErrNone,
           invoked |-> reversed,
           finalFields |-> [i \in 1..n |->
                              [key |-> reversed[i].key, config |-> results[i].config]]]
     ELSE [error |-> results[first].error,
           invoked |-> SubSeq(reversed, 1, first),
           finalFields |-> <<>>]

\* The function mountFields returns, catching what a thunk throws: the field
\* is left out of the result and the next thunk is invoked
FieldsThunkSkippingFailed(map) ==
  LET Returning(thunk) == Invoke(thunk).error = ErrNone
      kept == SelectSeq(map, Returning)
  IN [error |-> ErrNone,
      invoked |-> map,
      finalFields |-> [i \in 1..Len(kept) |->
                         [key |-> kept[i].key, config |-> Invoke(kept[i]).config]]]

\* The function mountFields(map) / mountInputFields(map) returns, when the
\* external type calls it: every thunk of the map is invoked, in the map's
\* order, up to the first that throws; the result is the map of the field
\* configs the thunks returned.
FieldsThunk(map) ==
  LET results == [i \in 1..Len(map) |-> Invoke(map[i])]
      failed == {i \in 1..Len(map) : results[i].error # ErrNone}
      first == CHOOSE i \in failed : \A j \in failed : i <= j
  IN IF failed = {}
     THEN [error |-> ErrNone,
           invoked |-> map,
           finalFields |-> [i \in 1..Len(map) |->
                              [key |-> map[i].key, config |-> results[i].config]]]
     ELSE [error |-> results[first].error,
           invoked |-> SubSeq(map, 1, first),
           finalFields |-> <<>>]

\* mountFields invoking the thunks of the map itself, when the class
\* decorator calls it
mountFieldsAtOnce(map) ==
  [error |-> FieldsThunk(map).error, invoked |-> FieldsThunk(map).invoked, thunk |-> map]

\* mountFields(map), called by the class decorator: no thunk is invoked; what
\* is returned is the function over the map (FieldsThunk)
mountFields(map) == [error |-> ErrNone, invoked |-> <<>>, thunk |-> map]

mountInputFields(map) == mountFields(map)

assertFields(target, map) == map # <<>>
assertInputFields(target, map) == map # <<>>

----------------------------------------------------------------------------
(* Operations *)

Done(op, target, key, interfaces, error, invoked) ==
  /\ nOps < MaxOps
  /\ last' = [op |-> op, target |-> target, key |-> key, interfaces |-> interfaces,
              error |-> error, invoked |-> invoked]
  /\ nOps' = nOps + 1
  /\ UNCHANGED <<decl, noType>>

Throw(op, target, key, interfaces, error, invoked) ==
  /\ Done(op, target, key, interfaces, error, invoked)
  /\ UNCHANGED <<fields, inputFields, graphqlType, mounted, meta>>

\* reflection: Reflect.defineMetadata of the description / deprecation reason
description(text, target, key) ==
  /\ meta' = [meta EXCEPT ![target][key].description = text]
  /\ Done("description", target, key, <<>>, ErrNone, <<>>)
  /\ UNCHANGED <<fields, inputFields, graphqlType, mounted>>

deprecated(reason, target, key) ==
  /\ meta' = [meta EXCEPT ![target][key].deprecationReason = reason]
  /\ Done("deprecated", target, key, <<>>, ErrNone, <<>>)
  /\ UNCHANGED <<fields, inputFields, graphqlType, mounted>>

\* Field without the check of line 103: a second application replaces the thunk
FieldReplacing(type, config, target, key) ==
  /\ fields' = [fields EXCEPT
                  ![target] = Put(@, Thunk(FALSE, type, config, target, key))]
  /\ Done("Field", target, key, <<>>, ErrNone, <<>>)
  /\ UNCHANGED <<inputFields, graphqlType, mounted, meta>>

\* part_001 lines 97-162
Field(type, config, target, key) ==
  IF Has(getFields(target), key)
  THEN Throw("Field", target, key, <<>>, ErrDuplicate, <<>>)
  ELSE /\ fields' = [fields EXCEPT
                       ![target] = Put(@, Thunk(FALSE, type, config, target, key))]
       /\ Done("Field", target, key, <<>>, ErrNone, <<>>)
       /\ UNCHANGED <<inputFields, graphqlType, mounted, meta>>

\* part_001 lines 170-193
InputField(type, config, target, key) ==
  IF Has(getInputFields(target), key)
  THEN Throw("InputField", target, key, <<>>, ErrDuplicate, <<>>)
  ELSE /\ inputFields' = [inputFields EXCEPT
                            ![target] = Put(@, Thunk(TRUE, type, config, target, key))]
       /\ Done("InputField", target, key, <<>>, ErrNone, <<>>)
       /\ UNCHANGED <<fields, graphqlType, mounted, meta>>

\* reflection: the registry entry of the class is written; the type is a new
\* object, which has not read its fields
setGraphQLType(op, target, interfaces, invoked, type) ==
  /\ graphqlType' = [graphqlType EXCEPT ![target] = type]
  /\ mounted' = [mounted EXCEPT ![target] = <<>>]
  /\ Done(op, target, "", interfaces, ErrNone, invoked)
  /\ UNCHANGED <<fields, inputFields, meta>>

\* part_001 lines 207-215: the error of the first entry of opts.interfaces
\* that getGraphQLType throws for or that is no interface type
InterfacesError(interfaces) ==
  LET ifaceType(i) == getGraphQLType(Ref(interfaces[i], FALSE))
      failing == {i \in 1..Len(interfaces) : ifaceType(i).kind # "Interface"}
      first == CHOOSE i \in failing : \A j \in failing : i <= j
  IN IF failing = {} THEN ErrNone
     ELSE IF ifaceType(first) = NoTypeError THEN ErrNoType
     ELSE ErrInterface

\* part_001 lines 217-226
RECURSIVE InterfaceFields(_)
InterfaceFields(interfaces) ==
  IF interfaces = <<>>
  THEN <<>>
  ELSE Spread(InterfaceFields(SubSeq(interfaces, 1, Len(interfaces) - 1)),
              getFields(interfaces[Len(interfaces)]))

\* ObjectType with the two spreads of lines 228-233 in the other order
ObjectTypeOwnFieldsFirst(opts, target) ==
  LET flds == Spread(getFields(target), InterfaceFields(opts.interfaces))
      result == mountFields(flds)
  IN IF InterfacesError(opts.interfaces) # ErrNone
     THEN Throw("ObjectType", target, "", opts.interfaces,
                InterfacesError(opts.interfaces), <<>>)
     ELSE IF ~assertFields(target, flds)
     THEN Throw("ObjectType", target, "", opts.interfaces, ErrNoFields, <<>>)
     ELSE IF result.error # ErrNone
     THEN Throw("ObjectType", target, "", opts.interfaces, result.error, result.invoked)
     ELSE setGraphQLType("ObjectType", target, opts.interfaces, result.invoked,
            [kind |-> "Object",
             name |-> Or(opts.name, target),
             description |-> Or(opts.description, getDescription(target, ClassKey)),
             interfaces |-> opts.interfaces,
             fields |-> result.thunk,
             values |-> <<>>])

\* ObjectType merging into the pending map of the class (Object.assign on
\* getFields(target)) instead of into a new object
ObjectTypeMergingInPlace(opts, target) ==
  LET flds == Spread(InterfaceFields(opts.interfaces), getFields(target))
      result == mountFields(flds)
  IN IF InterfacesError(opts.interfaces) # ErrNone
     THEN Throw("ObjectType", target, "", opts.interfaces,
                InterfacesError(opts.interfaces), <<>>)
     ELSE IF ~assertFields(target, flds)
     THEN Throw("ObjectType", target, "", opts.interfaces, ErrNoFields, <<>>)
     ELSE IF result.error # ErrNone
     THEN /\ fields' = [fields EXCEPT ![target] = flds]
          /\ Done("ObjectType", target, "", opts.interfaces, result.error, result.invoked)
          /\ UNCHANGED <<inputFields, graphqlType, mounted, meta>>
     ELSE /\ fields' = [fields EXCEPT ![target] = flds]
          /\ graphqlType' = [graphqlType EXCEPT ![target] =
               [kind |-> "Object",
                name |-> Or(opts.name, target),
                description |-> Or(opts.description, getDescription(target, ClassKey)),
                interfaces |-> opts.interfaces,
                fields |-> result.thunk,
                values |-> <<>>]]
          /\ mounted' = [mounted EXCEPT ![target] = <<>>]
          /\ Done("ObjectType", target, "", opts.interfaces, ErrNone, result.invoked)
          /\ UNCHANGED <<inputFields, meta>>

\* part_001 lines 201-248; mountFields(fields) is evaluated before
\* setGraphQLType is called, over the new object of lines 228-233
ObjectType(opts, target) ==
  LET allInterfaceFields == InterfaceFields(opts.interfaces)
      flds == Spread(allInterfaceFields, getFields(target))
      result == mountFields(flds)
  IN IF InterfacesError(opts.interfaces) # ErrNone
     THEN Throw("ObjectType", target, "", opts.interfaces,
                InterfacesError(opts.interfaces), <<>>)
     ELSE IF ~assertFields(target, flds)
     THEN Throw("ObjectType", target, "", opts.interfaces, ErrNoFields, <<>>)
     ELSE IF result.error # ErrNone
     THEN Throw("ObjectType", target, "", opts.interfaces, result.error, result.invoked)
     ELSE setGraphQLType("ObjectType", target, opts.interfaces, result.invoked,
            [kind |-> "Object",
             name |-> Or(opts.name, target),
             description |-> Or(opts.description, getDescription(target, ClassKey)),
             interfaces |-> opts.interfaces,
             fields |-> result.thunk,
             values |-> <<>>])

\* part_001 lines 256-286; the map handed to mountFields is the pending map
\* of the class itself, so the entry holds no map of its own
InterfaceType(opts, target) ==
  LET flds == getFields(target)
      result == mountFields(flds)
  IN IF ~assertFields(target, flds)
     THEN Throw("InterfaceType", target, "", <<>>, ErrNoFields, <<>>)
     ELSE IF result.error # ErrNone
     THEN Throw("InterfaceType", target, "", <<>>, result.error, result.invoked)
     ELSE setGraphQLType("InterfaceType", target, <<>>, result.invoked,
            [kind |-> "Interface",
             name |-> Or(opts.name, target),
             description |-> Or(opts.description, getDescription(target, ClassKey)),
             interfaces |-> <<>>,
             fields |-> <<>>,
             values |-> <<>>])

\* part_001 lines 293-311; as InterfaceType, over the pending input-field map
InputObjectType(opts, target) ==
  LET flds == getInputFields(target)
      result == mountInputFields(flds)
  IN IF ~assertInputFields(target, flds)
     THEN Throw("InputObjectType", target, "", <<>>, ErrNoFields, <<>>)
     ELSE IF result.error # ErrNone
     THEN Throw("InputObjectType", target, "", <<>>, result.error, result.invoked)
     ELSE setGraphQLType("InputObjectType", target, <<>>, result.invoked,
            [kind |-> "InputObject",
             name |-> Or(opts.name, target),
             description |-> Or(opts.description, getDescription(target, ClassKey)),
             interfaces |-> <<>>,
             fields |-> <<>>,
             values |-> <<>>])

\* The static members the classes declare (part_000): Episode has three,
\* Character, Human and Droid have none
StaticMembers(target) ==
  IF target = "Episode" THEN <<"NEWHOPE", "EMPIRE", "JEDI">> ELSE <<>>

StaticValue(target, name) ==
  CASE name = "NEWHOPE" -> 4
    [] name = "EMPIRE" -> 5
    [] name = "JEDI" -> 6

\* Object.getOwnPropertyNames of a class: what every class has, then its
\* static members
BaseClassProperties == <<"length", "name", "prototype">>
getOwnPropertyNames(target) == BaseClassProperties \o StaticMembers(target)

\* part_001 lines 313-323
getStaticProperties(target) ==
  LET NotOfBaseClass(name) ==
        \A i \in 1..Len(BaseClassProperties) : BaseClassProperties[i] # name
  IN SelectSeq(getOwnPropertyNames(target), NotOfBaseClass)

\* part_001 lines 330-352
EnumType(opts, target) ==
  LET names == getStaticProperties(target)
      values == [i \in 1..Len(names) |->
                   [name |-> names[i],
                    value |-> StaticValue(target, names[i]),
                    description |-> getDescription(target, names[i]),
                    deprecationReason |-> getDeprecationReason(target, names[i])]]
  IN setGraphQLType("EnumType", target, <<>>, <<>>,
       [kind |-> "Enum",
        name |-> Or(opts.name, target),
        description |-> Or(opts.description, getDescription(target, ClassKey)),
        interfaces |-> <<>>,
        fields |-> <<>>,
        values |-> values])

\* The map whose thunks the fields function of the type of a class invokes:
\* the object ObjectType built, or the pending map of the class, as it is
\* when the function is called
TypeFields(target) ==
  IF graphqlType[target].kind = "Object" THEN graphqlType[target].fields
  ELSE IF graphqlType[target].kind = "Interface" THEN getFields(target)
  ELSE IF graphqlType[target].kind = "InputObject" THEN getInputFields(target)
  ELSE <<>>

\* The external type of a class reads its fields (schema assembly, part_000
\* 108): it calls the function mountFields returned and keeps the result; a
\* throw leaves the type without fields, to be read again.
ResolveFields(target) ==
  /\ graphqlType[target].kind \in {"Object", "Interface", "InputObject"}
  /\ mounted[target] = <<>>
  /\ LET result == FieldsThunk(TypeFields(target))
     IN /\ mounted' = [mounted EXCEPT ![target] = result.finalFields]
        /\ Done("ResolveFields", target, "", <<>>, result.error, result.invoked)
  /\ UNCHANGED <<fields, inputFields, graphqlType, meta>>

----------------------------------------------------------------------------
(* The modules that are loaded: the decorators they apply.  A member        *)
(* declaration is the record of a Field / InputField application, a class   *)
(* declaration that of a class decorator.  Any declaration may be applied   *)
(* at any time, any number of times.                                        *)

String == Ref("String", FALSE)
ID == Ref("ID", FALSE)
Class(c) == Ref(c, FALSE)
ListOf(c) == Ref(c, TRUE)

Options(interfaces) ==
  [name |-> Undefined, description |-> Undefined, interfaces |-> interfaces]

FieldDecl(type, config, target, key) == Thunk(FALSE, type, config, target, key)
InputFieldDecl(type, config, target, key) == Thunk(TRUE, type, config, target, key)
ClassDecl(decorator, interfaces, target) ==
  [decorator |-> decorator, interfaces |-> interfaces, target |-> target]
MetaDecl(target, key) == [target |-> target, key |-> key]

Module(members, classes, metas) ==
  [members |-> members, classes |-> classes, metas |-> metas]

\* An interface and the object types that implement it (part_000)
Inheritance ==
  Module({FieldDecl(String, NoConfig, "Character", "name"),
          FieldDecl(ID, NoConfig, "Character", "name"),
          FieldDecl(ListOf("Character"), NoConfig, "Character", "friends"),
          FieldDecl(String, NoConfig, "Human", "name"),
          FieldDecl(String, NoConfig, "Human", "friends"),
          FieldDecl(String, NoConfig, "Droid", "friends")},
         {ClassDecl("InterfaceType", <<>>, "Character"),
          ClassDecl("ObjectType", <<"Character">>, "Human"),
          ClassDecl("ObjectType", <<"Character">>, "Droid"),
          ClassDecl("ObjectType", <<>>, "Human")},
         {})

\* An object type with two interfaces that define the same name
TwoInterfaces ==
  Module({FieldDecl(String, NoConfig, "Character", "name"),
          FieldDecl(ID, NoConfig, "Droid", "name"),
          FieldDecl(String, NoConfig, "Droid", "friends"),
          FieldDecl(String, NoConfig, "Human", "friends")},
         {ClassDecl("InterfaceType", <<>>, "Character"),
          ClassDecl("InterfaceType", <<>>, "Droid"),
          ClassDecl("ObjectType", <<"Character", "Droid">>, "Human"),
          ClassDecl("ObjectType", <<"Droid", "Character">>, "Human")},
         {})

\* Interface lists with entries that are no interface
Interfaces ==
  Module({FieldDecl(String, NoConfig, "Character", "name"),
          FieldDecl(String, NoConfig, "Human", "name")},
         {ClassDecl("InterfaceType", <<>>, "Character"),
          ClassDecl("ObjectType", <<>>, "Character"),
          ClassDecl("EnumType", <<>>, "Character"),
          ClassDecl("EnumType", <<>>, "Episode"),
          ClassDecl("ObjectType", <<"Character">>, "Human"),
          ClassDecl("ObjectType", <<"Character", "Droid">>, "Human")},
         {})

\* Fields whose type is a class: forward references and wrong kinds
Kinds ==
  Module({FieldDecl(ListOf("Character"), NoConfig, "Character", "friends"),
          FieldDecl(Class("Human"), NoConfig, "Character", "name"),
          FieldDecl(String, NoConfig, "Human", "name"),
          FieldDecl(Class("Droid"), NoConfig, "Human", "friends"),
          InputFieldDecl(String, NoConfig, "Droid", "name"),
          InputFieldDecl(ID, NoConfig, "Droid", "name"),
          InputFieldDecl(Class("Human"), NoConfig, "Droid", "friends")},
         {ClassDecl("InterfaceType", <<>>, "Character"),
          ClassDecl("ObjectType", <<>>, "Human"),
          ClassDecl("InputObjectType", <<>>, "Droid")},
         {})

\* Field arguments in both shapes
Arguments ==
  Module({FieldDecl(String,
                    Config(<<BareArg("episode", String)>>, Undefined, Undefined, Undefined),
                    "Human", "name"),
          FieldDecl(String,
                    Config(<<Argument("episode", String, "which", "4")>>,
                           Undefined, Undefined, Undefined),
                    "Human", "friends"),
          FieldDecl(String,
                    Config(<<BareArg("episode", Class("Human"))>>,
                           Undefined, Undefined, Undefined),
                    "Character", "name"),
          FieldDecl(String,
                    Config(<<Argument("episode", Class("Droid"), Undefined, Undefined)>>,
                           Undefined, Undefined, Undefined),
                    "Character", "friends"),
          InputFieldDecl(String, NoConfig, "Droid", "name")},
         {ClassDecl("ObjectType", <<>>, "Human"),
          ClassDecl("ObjectType", <<>>, "Character"),
          ClassDecl("InputObjectType", <<>>, "Droid")},
         {})

\* Descriptions from the config and from @description / @deprecated
Descriptions ==
  Module({FieldDecl(String, Config(NoArgs, "cfg", "cfg-old", Undefined), "Human", "name"),
          InputFieldDecl(String, Config(NoArgs, "cfg", "cfg-old", "4"), "Droid", "name")},
         {ClassDecl("ObjectType", <<>>, "Human"),
          ClassDecl("InputObjectType", <<>>, "Droid"),
          ClassDecl("EnumType", <<>>, "Episode")},
         {MetaDecl("Human", "name"), MetaDecl("Droid", "name"), MetaDecl("Droid", ClassKey),
          MetaDecl("Episode", "NEWHOPE")})

\* Every class with every decorator of an output type
General ==
  Module({FieldDecl(type, NoConfig, c, k) :
             type \in {String, Class("Character")},
             c \in {"Character", "Human"}, k \in Keys},
         {ClassDecl("ObjectType", interfaces, c) :
             interfaces \in {<<>>, <<"Character">>},
             c \in {"Character", "Human"}}
           \cup {ClassDecl("InterfaceType", <<>>, c) :
                    c \in {"Character", "Human"}},
         {})

ModuleNames ==
  {"General", "Inheritance", "TwoInterfaces", "Interfaces", "Kinds", "Arguments", "Descriptions"}

\* The declarations of the module that is loaded
Loaded ==
  CASE decl = "General" -> General
    [] decl = "Inheritance" -> Inheritance
    [] decl = "TwoInterfaces" -> TwoInterfaces
    [] decl = "Interfaces" -> Interfaces
    [] decl = "Kinds" -> Kinds
    [] decl = "Arguments" -> Arguments
    [] decl = "Descriptions" -> Descriptions

----------------------------------------------------------------------------

Init ==
  /\ fields = [c \in Classes |-> <<>>]
  /\ inputFields = [c \in Classes |-> <<>>]
  /\ graphqlType = [c \in Classes |-> NoEntry]
  /\ mounted = [c \in Classes |-> <<>>]
  /\ meta = [c \in Classes |-> [k \in MetaKeys |-> NoMeta]]
  /\ noType \in {Undefined, Throws}
  /\ last = [op |-> "load", target |-> "", key |-> "", interfaces |-> <<>>,
             error |-> ErrNone, invoked |-> <<>>]
  /\ nOps = 0
  /\ decl \in ModuleNames

DecorateDescription == \E m \in Loaded.metas : description("doc", m.target, m.key)

DecorateDeprecated == \E m \in Loaded.metas : deprecated("old", m.target, m.key)

DecorateField ==
  \E m \in Loaded.members : ~m.input /\ Field(m.type, m.config, m.target, m.key)

DecorateInputField ==
  \E m \in Loaded.members : m.input /\ InputField(m.type, m.config, m.target, m.key)

DecorateObjectType ==
  \E d \in Loaded.classes :
     d.decorator = "ObjectType" /\ ObjectType(Options(d.interfaces), d.target)

DecorateInterfaceType ==
  \E d \in Loaded.classes :
     d.decorator = "InterfaceType" /\ InterfaceType(Options(<<>>), d.target)

DecorateInputObjectType ==
  \E d \in Loaded.classes :
     d.decorator = "InputObjectType" /\ InputObjectType(Options(<<>>), d.target)

DecorateEnumType ==
  \E d \in Loaded.classes :
     d.decorator = "EnumType" /\ EnumType(Options(<<>>), d.target)

AssembleSchema == \E target \in Classes : ResolveFields(target)

Next ==
  \/ DecorateDescription
  \/ DecorateDeprecated
  \/ DecorateField
  \/ DecorateInputField
  \/ DecorateObjectType
  \/ DecorateInterfaceType
  \/ DecorateInputObjectType
  \/ DecorateEnumType
  \/ AssembleSchema

Spec == Init /\ [][Next]_vars

\* The behaviours in which getGraphQLType gives no type for a class that has
\* none registered and throws nothing of its own: every throw is one of the
\* local validation checks of the decorators (section 7)
InitLocalChecks == Init /\ noType = Undefined

SpecLocalChecks == InitLocalChecks /\ [][Next]_vars

----------------------------------------------------------------------------
(* Properties *)

PendingMap(op, target) ==
  IF op = "Field" THEN fields[target] ELSE inputFields[target]

\* C1: Field (InputField) for a key that the class's pending field map
\* (pending input-field map) already holds throws 'Field ... is already
\* defined' and leaves both pending maps of every class as they were, so the
\* first thunk registered for the key is kept; for a key the map does not
\* hold, the call appends exactly one entry, for that key, and changes no
\* other entry of any map.
DuplicateFieldRejected ==
  [][last'.op \in {"Field", "InputField"} =>
       LET op == last'.op
           target == last'.target
           key == last'.key
           before == PendingMap(op, target)
           after == IF op = "Field" THEN fields'[target] ELSE inputFields'[target]
       IN IF Has(before, key)
          THEN /\ last'.error = ErrDuplicate
               /\ fields' = fields
               /\ inputFields' = inputFields
          ELSE /\ last'.error = ErrNone
               /\ Len(after) = Len(before) + 1
               /\ SubSeq(after, 1, Len(before)) = before
               /\ after[Len(after)].key = key
               /\ after[Len(after)].target = target
               /\ \A c \in Classes \ {target} :
                     fields'[c] = fields[c] /\ inputFields'[c] = inputFields[c]
               /\ IF op = "Field"
                  THEN inputFields' = inputFields
                  ELSE fields' = fields]_vars

\* C1 witness: a second Field for Character.name, of type ID, was rejected and
\* the thunk of the first, of type String, is still the entry.
DuplicateFieldWitness ==
  /\ decl = "Inheritance"
  /\ last.op = "Field"
  /\ last.error = ErrDuplicate
  /\ last.target = "Character"
  /\ last.key = "name"
  /\ Get(fields["Character"], "name").type = String

InterfaceKeys(interfaces) ==
  UNION {KeysOf(fields[interfaces[i]]) : i \in 1..Len(interfaces)}

\* C2: the field map ObjectType mounts for a class with interfaces I1..In has
\* as keys the pending field names of I1..In and of the class; a name the
\* class defines has the thunk of the class, any other name the thunk of an
\* interface that defines it; the names of the interfaces come first.
InterfaceFieldsMergedFirst ==
  [][(last'.op = "ObjectType" /\ last'.error = ErrNone) =>
       LET target == last'.target
           interfaces == last'.interfaces
           own == fields[target]
           merged == graphqlType'[target].fields
       IN /\ graphqlType'[target].kind = "Object"
          /\ graphqlType'[target].interfaces = interfaces
          /\ KeysOf(merged) = InterfaceKeys(interfaces) \cup KeysOf(own)
          /\ Len(merged) = Cardinality(KeysOf(merged))
          /\ \A k \in KeysOf(own) : Get(merged, k) = Get(own, k)
          /\ \A k \in InterfaceKeys(interfaces) \ KeysOf(own) :
                \E i \in 1..Len(interfaces) :
                   /\ Has(fields[interfaces[i]], k)
                   /\ Get(merged, k) = Get(fields[interfaces[i]], k)
          /\ \A i, j \in 1..Len(merged) :
                (/\ merged[i].key \in InterfaceKeys(interfaces)
                 /\ merged[j].key \notin InterfaceKeys(interfaces)) => i < j]_vars

\* C2 witness: Human is mounted with the interface Character; name, which both
\* define, has Human's thunk and friends has Character's.
InterfaceFieldsMergedWitness ==
  /\ last.op = "ObjectType"
  /\ last.error = ErrNone
  /\ last.target = "Human"
  /\ last.interfaces = <<"Character">>
  /\ KeysOf(fields["Character"]) = {"name", "friends"}
  /\ Has(fields["Human"], "name")
  /\ Get(graphqlType["Human"].fields, "name").target = "Human"
  /\ Get(graphqlType["Human"].fields, "friends").target = "Character"

ObjectTypeOnlyReads ==
  [][/\ last'.op = "ObjectType" => fields' = fields /\ inputFields' = inputFields
     /\ \A c \in Classes : \A i \in 1..Len(fields'[c]) : fields'[c][i].target = c
     /\ (last'.op = "ObjectType" /\ last'.error = ErrNone) =>
           \A i \in 1..Len(last'.interfaces) :
              KeysOf(fields[last'.interfaces[i]])
                 \subseteq KeysOf(graphqlType'[last'.target].fields)
     /\ (last'.op = "Field" /\ last'.error = ErrDuplicate) =>
           /\ Has(fields[last'.target], last'.key)
           /\ Get(fields[last'.target], last'.key).target = last'.target]_vars

\* C10 witness: Human and Droid are both mounted with the interface
\* Character and its field name, and a Field name applied to Human afterwards
\* was accepted.
ObjectTypeOnlyReadsWitness ==
  /\ last.op = "Field"
  /\ last.error = ErrNone
  /\ last.target = "Human"
  /\ last.key = "name"
  /\ \A c \in {"Human", "Droid"} :
        /\ graphqlType[c].kind = "Object"
        /\ graphqlType[c].interfaces = <<"Character">>
        /\ Has(graphqlType[c].fields, "name")
        /\ Get(graphqlType[c].fields, "name").target = "Character"
  /\ Get(fields["Character"], "name").target = "Character"

ClassDecorators == {"ObjectType", "InterfaceType", "InputObjectType"}
ThunkErrors == {ErrNotOutput, ErrNotInput, ErrArgument}

\* The map a class decorator hands to mountFields
DecoratedFields(op, interfaces, target) ==
  IF op = "ObjectType" THEN Spread(InterfaceFields(interfaces), fields[target])
  ELSE IF op = "InterfaceType" THEN fields[target]
  ELSE inputFields[target]

\* The pending map of the class a class decorator decorates
DeclaredFields(op, target) ==
  IF op = "InputObjectType" THEN inputFields[target] ELSE fields[target]

IsPrefix(s, t) == Len(s) <= Len(t) /\ s = SubSeq(t, 1, Len(s))

\* The thunks of a sequence that were registered on the class
OwnThunks(seq, target) ==
  LET Own(thunk) == thunk.target = target
  IN SelectSeq(seq, Own)

NotOfKind(thunk) ==
  IF thunk.input
  THEN ~isInputType(getGraphQLType(thunk.type))
  ELSE ~isOutputType(getGraphQLType(thunk.type))

\* The type of an argument of the thunk is no input type
WrongArgument(thunk) ==
  \E i \in 1..Len(thunk.config.args) :
     ~isInputType(getGraphQLType(thunk.config.args[i].type))

WrongKind(thunk) == NotOfKind(thunk) \/ WrongArgument(thunk)

\* The error the claim gives for a thunk of a wrong kind
WrongKindError(thunk) ==
  IF thunk.input THEN ErrNotInput
  ELSE IF NotOfKind(thunk) THEN ErrNotOutput
  ELSE ErrArgument

Given(value) == IF value = Absent THEN Undefined ELSE value

\* C6: every argument of a mounted field has the resolved type of the
\* argument given; given as a bare type it has nothing else, given as a
\* record it has the record's description and the record's defaultValue.
ArgumentShortcutsResolved ==
  (last.op = "ResolveFields" /\ last.error = ErrNone) =>
     \A i \in 1..Len(mounted[last.target]) :
        LET thunk == TypeFields(last.target)[i]
            config == mounted[last.target][i].config
        IN ~thunk.input =>
             /\ Len(config.args) = Len(thunk.config.args)
             /\ \A j \in 1..Len(config.args) :
                   LET arg == thunk.config.args[j]
                       argConfig == config.args[j]
                   IN /\ argConfig.name = arg.name
                      /\ argConfig.type = getGraphQLType(arg.type)
                      /\ IF arg.record
                         THEN /\ Given(argConfig.description) = arg.description
                              /\ Given(argConfig.defaultValue) = arg.defaultValue
                         ELSE /\ argConfig.description = Absent
                              /\ argConfig.defaultValue = Absent

\* The classes the type and the argument types of a thunk name
ReferencedClasses(thunk) ==
  ({thunk.type.of} \cup {thunk.config.args[i].type.of : i \in 1..Len(thunk.config.args)})
     \cap Classes

ConfigDescriptionHonoured ==
  (last.op = "ResolveFields" /\ last.error = ErrNone) =>
     \A i \in 1..Len(mounted[last.target]) :
        LET thunk == TypeFields(last.target)[i]
            config == mounted[last.target][i].config
        IN /\ config.description =
                IF thunk.config.description # Undefined
                THEN thunk.config.description
                ELSE getDescription(thunk.target, thunk.key)
           /\ config.deprecationReason =
                IF thunk.config.deprecationReason # Undefined
                THEN thunk.config.deprecationReason
                ELSE getDeprecationReason(thunk.target, thunk.key)

====
